---- MODULE Spec2Model ----
(***************************************************************************)
(* NovelAgent: the task manager (novelagent/task_manager.py) with the     *)
(* worker loop of BaseAgent.run (novelagent/base_agent.py) and the        *)
(* generation call of LLMInterface.generate (novelagent/llm_interface.py),*)
(* the Memory (novelagent/memory.py) with its VectorDB store              *)
(* (novelagent/vector_db.py), and the ThoughtAtom tree                    *)
(* (novelagent/thought_atom.py).                                           *)
(*                                                                         *)
(* A task is a Python dict held by reference in TaskManager.tasks; the    *)
(* model names a stored dict by its position in the list, so two dicts    *)
(* with the same "id" stay two tasks.  A dict that was never passed to    *)
(* add_task is position 0.  A missing "status"/"result" key is "none".    *)
(*                                                                         *)
(* Each component has its own specification over the same variables: the  *)
(* variables of the other components keep their value after construction. *)
(***************************************************************************)
EXTENDS Integers, Sequences, FiniteSets, TLC

\* ---------------------------------------------------------------- bounds
MaxTasks == 3

Ids == {"a", "b", "c"}
DepSets == {{}, {"a"}, {"a", "b"}}
Workers == {"w1", "w2"}
MaxRows == 2
MaxCapacity == 3
MaxAdds == 5
MaxAtoms == 3
MaxCalls == 4

\* memory.py:20: the default of max_short_term_items
DefaultMaxShortTermItems == 100

\* vector_db.py:37: VectorDB.dimension (1536 by default), kept small
Dimension == 2

ToolNames == {"write", "default_tool"}
Results == {"r1", "r2"}

\* Texts the generation service can send back to BaseAgent.act, by shape:
\* a JSON object naming a tool, a JSON object without "tool"/"args",
\* a JSON value that is no object, and text that is not JSON.
ActionResponses == {"json:write", "json:default_tool", "json:nokey", "json:list", "text"}

\* Texts the generation service can send back to decompose_task, by shape:
\* text that is not JSON, a JSON number, a JSON object, a list of numbers,
\* the empty list, and lists of one and of two subtask objects.
DecompositionResponses ==
    {"text", "json:5", "json:{subtasks}", "json:[5]", "json:[]",
     "json:[{s1}]", "json:[{s1},{s2}]"}

\* The names and roles of the agents constructed: BaseAgent(name, role, ...)
RegistryNames == {"Planner", "Editor", "Writer"}
Roles == {"planner", "tester"}
BaseAgents == [name : RegistryNames, role : Roles]

\* The methods of class AgentCoordinator (agent_coordinator.py:18-163)
AgentCoordinatorMethods ==
    {"register_agent", "get_agent", "list_agents", "coordinate", "message_passing",
     "broadcast", "collaborative_task"}

\* What LLMInterface.generate returns when litellm.completion raises.
ErrorText == "Error generating text"

NoValue == "none"

\* A text is the sequence of its characters; a character outside ASCII is
\* written by its code point.  The item contents cover the empty string, a
\* mixed-case ASCII word and a non-ASCII character.
Contents == {<<>>, <<"A", "b">>, <<"U+6E2C">>}

\* Memory items are dicts with the key "content".
Items == {[content |-> c] : c \in Contents}

\* The vectors the embedding service answers with.
Embeddings == {<<1, 0>>, <<0, 1>>, <<1, 1>>}

\* The names of the ThoughtAtom objects a run constructs.
RootName == "root"

\* ThoughtTree(root_content, ...): the content of the root
RootContent == "r"

\* The contents given to the other atoms.  The tree never looks inside a
\* content, so a content is one string here.
TreeContents == {"x", "y"}

\* What the generation service answers to a summary request.
SummaryText == "s"

\* thought_atom.py:65-71: the text around the combined child summaries
PromptHead == "Summarize the following content into a coherent and comprehensive summary:"
PromptTail == "Your summary should capture all key points while being more concise than the original."

\* thought_atom.py:62: the separator of the child summaries
Separator == "\n\n"
AtomNames == {RootName} \cup {ToString(k) : k \in 1..MaxAtoms}

\* A thread that is not inside Memory.add.
NotAdding == [pc |-> "idle"]

VARIABLES
    tasks,      \* TaskManager.tasks: the list of task dicts
    last,       \* the last call made on a component and what it gave back
    wk,         \* per caller thread: where it is inside assign_task
    short_term_memory,      \* Memory.short_term_memory: the list of items
    max_short_term_items,   \* Memory.max_short_term_items
    vector_db,  \* Memory.vector_db: None, or a VectorDB with or without a connection
    table,      \* the rows of the VectorDB table, in insertion (id) order
    added,      \* history: the items added since the buffer was last empty
    mt,         \* per caller thread: where it is inside Memory.add
    atoms,      \* the ThoughtAtom objects constructed so far, by name
    root,       \* ThoughtTree.root
    agents,     \* AgentCoordinator.agents: the dict, as its entries in insertion order
    registry_log    \* history: the registry calls made, in order

memVars == <<short_term_memory, max_short_term_items, vector_db, table, added, mt>>

treeVars == <<atoms, root>>

regVars == <<agents, registry_log>>

vars == <<tasks, last, wk, memVars, treeVars, regVars>>

\* ------------------------------------------------------- pure functions

Positions(ts) == 1..Len(ts)

\* The stored tasks, whatever their status.
stored_tasks(ts) == [i \in 1..Len(ts) |-> i]

\* task_manager.py:117-124
get_pending_tasks(ts) ==
    SelectSeq([i \in 1..Len(ts) |-> i], LAMBDA i: ts[i].status # "completed")

\* task_manager.py:126-133
get_completed_tasks(ts) ==
    SelectSeq([i \in 1..Len(ts) |-> i], LAMBDA i: ts[i].status = "completed")

\* task_manager.py:135-148: the first stored task with that id, 0 for None
get_task_by_id(ts, id) ==
    IF \E i \in Positions(ts) : ts[i].id = id
    THEN CHOOSE i \in Positions(ts) :
            /\ ts[i].id = id
            /\ \A j \in Positions(ts) : ts[j].id = id => i <= j
    ELSE 0

\* task_manager.py:150-166 (progress_percentage as an integer part)
monitor_progress(ts) ==
    LET total == Len(ts)
        completed == Len(get_completed_tasks(ts))
    IN  [total |-> total,
         completed |-> completed,
         pending |-> Len(get_pending_tasks(ts)),
         progress_percentage |-> IF total > 0 THEN (completed * 100) \div total ELSE 0]

\* llm_interface.py:45-59: the text generate returns; a failed call is
\* caught and turned into the error text.
generate(outcome, text) == IF outcome = "fail" THEN ErrorText ELSE text

\* base_agent.py:113-136: act asks the service for an action and parses the
\* answer with json.loads and two key lookups.  JSONDecodeError and KeyError
\* fall back to default_tool; indexing a JSON value that is no object raises
\* TypeError, which act does not catch.
act(actOutcome, actText) ==
    LET action_json == generate(actOutcome, actText)
    IN  CASE action_json = "json:write"        -> [kind |-> "action", tool |-> "write"]
          [] action_json = "json:default_tool" -> [kind |-> "action", tool |-> "default_tool"]
          [] action_json = "json:list"         -> [kind |-> "raise", tool |-> NoValue]
          [] OTHER                             -> [kind |-> "action", tool |-> "default_tool"]

\* base_agent.py:191-207: the tool's result, or "Tool ... not found" raised
execute_action(action, registered, toolResult) ==
    IF action.tool \in registered
    THEN [ends |-> "return", result |-> toolResult]
    ELSE [ends |-> "raise", result |-> NoValue]

\* base_agent.py:154-179: how run(context) ends for the given answers of the
\* generation service to think and to act, with agent.tools = registered
\* and toolResult what the chosen tool returns.  ends is "return" (the
\* observation, str of the tool's result, is the value of run) or "raise".
\* genFailed records that a generation call of this run failed.
run(registered, thinkOutcome, actOutcome, actText, toolResult) ==
    LET thought == generate(thinkOutcome, "thought")
        action == act(actOutcome, actText)
        done == IF action.kind = "raise"
                THEN [ends |-> "raise", result |-> NoValue]
                ELSE execute_action(action, registered, toolResult)
    IN  [ends |-> done.ends,
         result |-> done.result,
         genFailed |-> (thought = ErrorText \/ generate(actOutcome, actText) = ErrorText)]

Outcomes == {"ok", "fail"}

\* Every way agent.run can end, over the agents and service answers modelled.
Runs ==
    { run(reg, t, a, x, r) :
        reg \in SUBSET ToolNames, t \in Outcomes, a \in Outcomes,
        x \in ActionResponses, r \in Results }

\* vector_db.py:102,115: the vector substituted for a failed embedding call
ZeroVector == [k \in 1..Dimension |-> 0]

\* vector_db.py:80-115: the vector get_embedding returns; a failed call of
\* the embedding service is caught and answered with the zero vector.
get_embedding(outcome, embedding) ==
    IF outcome = "fail" THEN ZeroVector ELSE embedding

\* vector_db.py:117-151: VectorDB.add(item) on the rows of the table.  ret
\* is the value returned, rows the table afterwards, embedded whether the
\* embedding service was called.  metadata is the item without "content".
VectorDB_add(db, rows, item, outcome, embedding) ==
    IF db # "connected" \/ item.content = <<>>
    THEN [ret |-> FALSE, rows |-> rows, embedded |-> FALSE]
    ELSE [ret |-> TRUE,
          rows |-> Append(rows, [content |-> item.content,
                                 embedding |-> get_embedding(outcome, embedding),
                                 metadata |-> <<>>]),
          embedded |-> TRUE]

\* str.lower() on the characters that occur
lower_char(c) ==
    CASE c = "A" -> "a"
      [] c = "B" -> "b"
      [] OTHER -> c

lower(text) == [k \in 1..Len(text) |-> lower_char(text[k])]

\* json.dumps writes a character outside ASCII as its \uXXXX escape
\* (ensure_ascii is left at its default).
RECURSIVE escape(_)
escape(text) ==
    IF text = <<>> THEN <<>>
    ELSE (IF Head(text) = "U+6E2C" THEN <<"\\", "u", "6", "e", "2", "c">>
          ELSE <<Head(text)>>) \o escape(Tail(text))

\* memory.py:81: json.dumps(item) of the dict {"content": ...}
json_dumps(item) ==
    <<"{", "\"", "c", "o", "n", "t", "e", "n", "t", "\"", ":", " ", "\"">>
        \o escape(item.content) \o <<"\"", "}">>

\* Python's  q in s  on strings
contains(q, s) ==
    \E k \in 0..(Len(s) - Len(q)) : SubSeq(s, k + 1, k + Len(q)) = q

\* memory.py:81: the test of the scan
matches(query, item) == contains(lower(query), lower(json_dumps(item)))

\* A buffer that takes an item only while it has room.
append_if_room(buf, capacity, item) ==
    IF Len(buf) >= capacity THEN buf ELSE Append(buf, item)

\* memory.py:41-45: the buffer after add's append and its one pop(0)
add(buf, capacity, item) ==
    LET appended == Append(buf, item)
    IN  IF Len(appended) > capacity THEN Tail(appended) ELSE appended

\* memory.py:61: short_term_memory[-n:].  Python slices from index
\* len - n when 0 < n <= len, and from index 0 when n = 0 (-0 is 0) or
\* n > len; a negative n slices from index -n.
get_recent(buf, n) ==
    LET len == Len(buf)
        from == IF n > 0 THEN (IF n <= len THEN len - n ELSE 0)
                ELSE (IF 0 - n <= len THEN 0 - n ELSE len)
    IN  SubSeq(buf, from + 1, len)

\* memory.py:78-86: the scan of the buffer; an item is appended to results
\* before the length of results is compared with n.
RECURSIVE scan(_, _, _, _)
scan(buf, query, n, results) ==
    IF buf = <<>> THEN results
    ELSE IF matches(query, Head(buf))
         THEN LET found == Append(results, Head(buf))
              IN  IF Len(found) >= n THEN found
                  ELSE scan(Tail(buf), query, n, found)
         ELSE scan(Tail(buf), query, n, results)

\* A buffer cut down to its newest item.
keep_newest(buf) == IF buf = <<>> THEN <<>> ELSE <<buf[Len(buf)]>>

\* memory.py:111
clear_short_term(buf) == <<>>

\* The distance pgvector's <=> gives for two vectors with entries >= 0:
\* 1 - cosine.  It is kept as the fraction num / den = cosine squared, and
\* is NaN when one of the vectors is the zero vector.
RECURSIVE dot(_, _, _)
dot(a, b, k) == IF k = 0 THEN 0 ELSE a[k] * b[k] + dot(a, b, k - 1)

cosine_distance(a, b) ==
    LET den == dot(a, a, Dimension) * dot(b, b, Dimension)
    IN  [nan |-> (den = 0), num |-> dot(a, b, Dimension) * dot(a, b, Dimension), den |-> den]

\* ORDER BY distance: d sorts strictly before e.  PostgreSQL sorts NaN
\* after every number.
sorts_before(d, e) ==
    /\ ~d.nan
    /\ (e.nan \/ d.num * e.den > e.num * d.den)

\* A search that returns the first n rows in the order of their insertion.
VectorDB_first_rows(db, rows, query_embedding, n) ==
    IF db # "connected" THEN {<<>>}
    ELSE {[k \in 1..(IF n < Len(rows) THEN n ELSE Len(rows)) |->
              [content |-> rows[k].content,
               distance |-> cosine_distance(rows[k].embedding, query_embedding)]]}

\* vector_db.py:153-188: what VectorDB.search(query, n) can return, given
\* the vector get_embedding gave for the query.  The statement has no
\* tie-break, so rows at the same distance come in any order.
VectorDB_search(db, rows, query_embedding, n) ==
    IF db # "connected" THEN {<<>>}
    ELSE LET m == Len(rows)
             distance(i) == cosine_distance(rows[i].embedding, query_embedding)
             orders == {p \in [1..m -> 1..m] :
                          /\ \A i, j \in 1..m : p[i] = p[j] => i = j
                          /\ \A i, j \in 1..m :
                                i < j => ~sorts_before(distance(p[j]), distance(p[i]))}
             limit == IF n < m THEN n ELSE m
         IN  {[k \in 1..limit |-> [content |-> rows[p[k]].content,
                                    distance |-> distance(p[k])]] : p \in orders}

\* The number of children entries of the atoms in S.
RECURSIVE SumChildren(_, _)
SumChildren(as, S) ==
    IF S = {} THEN 0
    ELSE LET a == CHOOSE x \in S : TRUE
         IN  Len(as[a].children) + SumChildren(as, S \ {a})

\* thought_atom.py:62: separator.join(texts), as the sequence of its parts
RECURSIVE join(_, _)
join(separator, texts) ==
    IF Len(texts) <= 1 THEN texts
    ELSE <<Head(texts), separator>> \o join(separator, Tail(texts))

\* thought_atom.py:65-71: the prompt built around the combined summaries
Prompt(combined) == <<PromptHead>> \o combined \o <<PromptTail>>

\* The calls of generate made by a list of summarize results, in order.
RECURSIVE CallsOf(_)
CallsOf(results) ==
    IF results = <<>> THEN <<>> ELSE Head(results).calls \o CallsOf(Tail(results))

\* A summarize that asks the generation service for every atom, leaves
\* included.
RECURSIVE summarize_every_atom(_, _, _)
summarize_every_atom(as, a, answers) ==
    LET kids == [k \in 1..Len(as[a].children) |->
                    summarize_every_atom(as, as[a].children[k], answers)]
        prompt == Prompt(join(Separator, [k \in 1..Len(kids) |-> kids[k].text]))
        summary == generate(answers[a], SummaryText)
    IN  [text |-> summary,
         calls |-> Append(CallsOf(kids), [node |-> a, prompt |-> prompt, ret |-> summary])]

\* thought_atom.py:48-74: summarize on atom a.  answers[b] is how the
\* generation service answers the request made for atom b ("ok" or
\* "fail").  text is the value returned, calls the calls of generate made,
\* in order, each with the atom it was made for, its prompt and what
\* generate returned.
RECURSIVE summarize(_, _, _)
summarize(as, a, answers) ==
    IF as[a].children = <<>> THEN [text |-> as[a].content, calls |-> <<>>]
    ELSE LET kids == [k \in 1..Len(as[a].children) |->
                         summarize(as, as[a].children[k], answers)]
             prompt == Prompt(join(Separator, [k \in 1..Len(kids) |-> kids[k].text]))
             summary == generate(answers[a], SummaryText)
         IN  [text |-> summary,
              calls |-> Append(CallsOf(kids),
                               [node |-> a, prompt |-> prompt, ret |-> summary])]

\* json.loads(text): ok is FALSE when JSONDecodeError is raised; value is
\* the Python value otherwise, with its kind ("int", "str", "dict", "list").
Subtask(description) == [kind |-> "dict", value |-> [description |-> description]]

json_loads(text) ==
    CASE text = "json:5" -> [ok |-> TRUE, value |-> [kind |-> "int", value |-> 5]]
      [] text = "json:{subtasks}" ->
            [ok |-> TRUE, value |-> [kind |-> "dict", value |-> [subtasks |-> <<>>]]]
      [] text = "json:[5]" ->
            [ok |-> TRUE, value |-> [kind |-> "list", value |-> <<[kind |-> "int", value |-> 5]>>]]
      [] text = "json:[]" -> [ok |-> TRUE, value |-> [kind |-> "list", value |-> <<>>]]
      [] text = "json:[{s1}]" ->
            [ok |-> TRUE, value |-> [kind |-> "list", value |-> <<Subtask("s1")>>]]
      [] text = "json:[{s1},{s2}]" ->
            [ok |-> TRUE, value |-> [kind |-> "list", value |-> <<Subtask("s1"), Subtask("s2")>>]]
      [] OTHER -> [ok |-> FALSE, value |-> NoValue]

\* What `for subtask in subtasks` goes through: the items of a list, the
\* keys of a dict.
iterate(parsed) ==
    IF parsed.kind = "list" THEN parsed.value
    ELSE LET keys == DOMAIN parsed.value
             order == CHOOSE q \in [1..Cardinality(keys) -> keys] :
                          \A i, j \in 1..Cardinality(keys) : q[i] = q[j] => i = j
         IN  [k \in 1..Cardinality(keys) |-> [kind |-> "str", value |-> order[k]]]

\* task_manager.py:75-82: the subtask returned when the response is not JSON
DefaultSubtask(id) ==
    [description |-> "Failed to decompose task", parent_id |-> id,
     dependencies |-> <<>>, complexity |-> "medium"]

\* task_manager.py:38-82: decompose_task(task) for a task with the given
\* id.  One call of generate; JSONDecodeError is the one exception caught.
\* Iterating an int and assigning subtask["parent_id"] on an int or a str
\* raise TypeError.
decompose_task(id, outcome, text) ==
    LET response == generate(outcome, text)
        parsed == json_loads(response)
    IN  IF ~parsed.ok
        THEN [out |-> "returned", calls |-> 1, ret |-> <<DefaultSubtask(id)>>]
        ELSE IF parsed.value.kind \notin {"list", "dict"}
        THEN [out |-> "raised", calls |-> 1, ret |-> <<>>]
        ELSE LET subtasks == iterate(parsed.value)
             IN  IF \E k \in 1..Len(subtasks) : subtasks[k].kind # "dict"
                 THEN [out |-> "raised", calls |-> 1, ret |-> <<>>]
                 ELSE [out |-> "returned", calls |-> 1,
                       ret |-> [k \in 1..Len(subtasks) |->
                                   [parent_id |-> id] @@ subtasks[k].value]]

\* agent_coordinator.py:37: self.agents[agent.name] = agent.  A dict keeps
\* the place of a key that is assigned again.
register_agent(as, agent) ==
    IF \E k \in 1..Len(as) : as[k].name = agent.name
    THEN [k \in 1..Len(as) |-> IF as[k].name = agent.name THEN agent ELSE as[k]]
    ELSE Append(as, agent)

\* agent_coordinator.py:39-49: self.agents.get(agent_name), NoValue for None
get_agent(as, agent_name) ==
    IF \E k \in 1..Len(as) : as[k].name = agent_name
    THEN as[CHOOSE k \in 1..Len(as) : as[k].name = agent_name]
    ELSE [name |-> NoValue, role |-> NoValue]

\* agent_coordinator.py:51-58: list(self.agents.keys())
list_agents(as) == [k \in 1..Len(as) |-> as[k].name]

\* ----------------------------------------------------------------- state

Task(id, deps) ==
    [id |-> id, dependencies |-> deps, status |-> NoValue, result |-> NoValue]

Idle == [pc |-> "idle", task |-> 0]

\* A call record: the operation, the task it was given (a position, 0 for a
\* dict that is not stored), how it ended ("returned" or "raised"), whether
\* a generation call failed during it, and the list it returned.
Call(o, i, out, genFailed, ret) ==
    [op |-> o, task |-> i, out |-> out, genFailed |-> genFailed, ret |-> ret]

\* thought_atom.py:21-35: ThoughtAtom(content, level, None, metadata), no
\* parent, no children.  A metadata dict is a function on its keys, the
\* empty dict <<>>; metadata None becomes the empty dict.
ThoughtAtom(content, level, metadata) ==
    [content |-> content, level |-> level, parent |-> NoValue, children |-> <<>>,
     metadata |-> metadata]

\* The state after construction: TaskManager() (task_manager.py:18-27),
\* Memory(vector_db_config, max_short_term_items) (memory.py:20-30) with
\* db the VectorDB built from the config or None, ThoughtTree(...)
\* (thought_atom.py:177-186), whose root is the one atom constructed, and
\* AgentCoordinator(llm_config) (agent_coordinator.py:18-28).
Constructed(db, capacity) ==
    /\ tasks = <<>>
    /\ last = Call("init", 0, NoValue, FALSE, <<>>)
    /\ wk = [w \in Workers |-> Idle]
    /\ short_term_memory = <<>>
    /\ max_short_term_items = capacity
    /\ vector_db = db
    /\ table = <<>>
    /\ added = <<>>
    /\ mt = [w \in Workers |-> NotAdding]
    /\ atoms = [a \in {RootName} |-> ThoughtAtom(RootContent, 0, <<>>)]
    /\ root = RootName
    /\ agents = <<>>
    /\ registry_log = <<>>

\* Memory() as every caller in the repository constructs it.
Init == Constructed(NoValue, DefaultMaxShortTermItems)

\* task_manager.py:29-36
add_task(id, deps) ==
    /\ Len(tasks) < MaxTasks
    /\ tasks' = Append(tasks, Task(id, deps))
    /\ last' = Call("add_task", Len(tasks) + 1, "returned", FALSE, <<>>)
    /\ UNCHANGED <<wk, memVars, treeVars, regVars>>

\* task_manager.py:117-124, called by whoever looks for work
GetPendingTasks ==
    /\ last' = Call("get_pending_tasks", 0, "returned", FALSE, get_pending_tasks(tasks))
    /\ UNCHANGED <<tasks, wk, memVars, treeVars, regVars>>

\* The two writes made on the task stored last when the dict is not stored.
mark_newest(ts, i, r) ==
    IF ts = <<>> THEN ts
    ELSE LET k == IF i = 0 THEN Len(ts) ELSE i
         IN  [ts EXCEPT ![k].status = "completed", ![k].result = r]

\* task_manager.py:111-113: the two writes after agent.run has returned r.
\* Position 0 is a dict that is not in TaskManager.tasks.
MarkCompleted(ts, i, r) ==
    IF i = 0 THEN ts
    ELSE [ts EXCEPT ![i].status = "completed", ![i].result = r]

\* An assign_task that marks the task completed before it runs the agent.
assign_task_marking_first(i, r) ==
    /\ i \in 0..Len(tasks)
    /\ tasks' = MarkCompleted(tasks, i, r.result)
    /\ last' = Call("assign_task", i, IF r.ends = "return" THEN "returned" ELSE "raised",
                    r.genFailed, <<>>)
    /\ UNCHANGED <<wk, memVars, treeVars, regVars>>

\* task_manager.py:84-115, one caller: assign_task(task, agent) from entry
\* to exit.  An exception of agent.run leaves before lines 112-113.
assign_task(i, r) ==
    /\ i \in 0..Len(tasks)
    /\ tasks' = IF r.ends = "return" THEN MarkCompleted(tasks, i, r.result) ELSE tasks
    /\ last' = Call("assign_task", i, IF r.ends = "return" THEN "returned" ELSE "raised",
                    r.genFailed, <<>>)
    /\ UNCHANGED <<wk, memVars, treeVars, regVars>>

Next ==
    \/ \E id \in Ids, deps \in DepSets : add_task(id, deps)
    \/ GetPendingTasks
    \/ \E i \in 0..MaxTasks, r \in Runs : assign_task(i, r)

Spec == Init /\ [][Next]_vars

\* --------------------------------------------------- progress reports
\* One caller submits tasks without dependencies, runs them and asks for
\* the progress.

\* task_manager.py:150-166
MonitorProgress ==
    /\ last' = [op |-> "monitor_progress", out |-> "returned",
                ret |-> monitor_progress(tasks)]
    /\ UNCHANGED <<tasks, wk, memVars, treeVars, regVars>>

NextProgress ==
    \/ \E id \in Ids : add_task(id, {})
    \/ \E i \in 0..MaxTasks, r \in Runs : assign_task(i, r)
    \/ MonitorProgress

SpecProgress == Init /\ [][NextProgress]_vars

\* ------------------------------------------------ concurrent callers
\* Several threads call assign_task on one TaskManager; the class holds no
\* lock, so a thread can be inside agent.run while another enters.

\* task_manager.py:95-109: thread w enters assign_task, agent.run is in flight
ThreadEnters(w, i) ==
    /\ wk[w].pc = "idle"
    /\ i \in 0..Len(tasks)
    /\ wk' = [wk EXCEPT ![w] = [pc |-> "run", task |-> i]]
    /\ UNCHANGED <<tasks, last, memVars, treeVars, regVars>>

\* task_manager.py:109-115: agent.run ends in thread w
ThreadLeaves(w, r) ==
    /\ wk[w].pc = "run"
    /\ tasks' = IF r.ends = "return" THEN MarkCompleted(tasks, wk[w].task, r.result)
                ELSE tasks
    /\ wk' = [wk EXCEPT ![w] = Idle]
    /\ UNCHANGED <<last, memVars, treeVars, regVars>>

NextThreads ==
    \/ \E id \in Ids, deps \in DepSets : add_task(id, deps)
    \/ \E w \in Workers, i \in 0..MaxTasks : ThreadEnters(w, i)
    \/ \E w \in Workers, r \in Runs : ThreadLeaves(w, r)

SpecThreads == Init /\ [][NextThreads]_vars

\* The threads keep being scheduled: some step of some caller is taken
\* whenever one is possible.  Nothing makes agent.run return: the call of
\* litellm.completion inside it (llm_interface.py:50-55) carries no
\* timeout, and assign_task (task_manager.py:109) waits for it, so no
\* fairness is assumed of ThreadLeaves for a particular thread.
SpecThreadsFair == SpecThreads /\ WF_vars(NextThreads)

\* ------------------------------------------------------------- memory
\* One caller of a Memory.

Queries == {<<"A">>, <<"U+6E2C">>}

\* The numbers of items asked for.
Counts == 0..(MaxCapacity + 1)

\* memory.py:32-49: add(item, is_important).  What VectorDB.add returns is
\* not looked at.
MemoryAdd(item, is_important, outcome, embedding) ==
    LET persist == is_important /\ vector_db # NoValue
    IN  /\ Len(added) < MaxAdds
        /\ persist => Len(table) < MaxRows
        /\ short_term_memory' = add(short_term_memory, max_short_term_items, item)
        /\ table' = IF persist
                    THEN VectorDB_add(vector_db, table, item, outcome, embedding).rows
                    ELSE table
        /\ added' = Append(added, item)
        /\ last' = [op |-> "add", out |-> "returned", item |-> item,
                    is_important |-> is_important]
        /\ UNCHANGED <<tasks, wk, max_short_term_items, vector_db, mt, treeVars, regVars>>

\* memory.py:51-61
MemoryGetRecent(n) ==
    /\ last' = [op |-> "get_recent", out |-> "returned", n |-> n,
                ret |-> get_recent(short_term_memory, n)]
    /\ UNCHANGED <<tasks, wk, memVars, treeVars, regVars>>

\* memory.py:63-86: search(query, n), by the store when there is one
MemorySearch(query, n, outcome, embedding) ==
    /\ \E ret \in (IF vector_db # NoValue
                    THEN VectorDB_search(vector_db, table,
                                         get_embedding(outcome, embedding), n)
                    ELSE {scan(short_term_memory, query, n, <<>>)}) :
          last' = [op |-> "search", out |-> "returned", n |-> n, query |-> query,
                   ret |-> ret]
    /\ UNCHANGED <<tasks, wk, memVars, treeVars, regVars>>

\* memory.py:109-111
MemoryClearShortTerm ==
    /\ short_term_memory' = clear_short_term(short_term_memory)
    /\ added' = <<>>
    /\ last' = [op |-> "clear_short_term", out |-> "returned"]
    /\ UNCHANGED <<tasks, wk, max_short_term_items, vector_db, table, mt, treeVars, regVars>>

\* Memory(max_short_term_items=capacity), without a store
InitMemory ==
    \E capacity \in 0..MaxCapacity : Constructed(NoValue, capacity)

\* Without a store the embedding service is never called, so one answer
\* stands for all.
NextMemory ==
    \/ \E item \in Items, important \in BOOLEAN :
          MemoryAdd(item, important, "ok", ZeroVector)
    \/ \E n \in Counts : MemoryGetRecent(n)
    \/ \E q \in Queries, n \in Counts : MemorySearch(q, n, "ok", ZeroVector)
    \/ MemoryClearShortTerm

SpecMemory == InitMemory /\ [][NextMemory]_vars

\* Memory(vector_db_config, max_short_term_items=capacity) with a config
\* that is not empty: the store has a connection when the config names a
\* host (vector_db.py:40-47).
InitMemoryStore ==
    \E db \in {"unconnected", "connected"}, capacity \in 1..2 :
        Constructed(db, capacity)

\* The items added to a Memory with a store: with and without content.
StoreItems == {[content |-> <<>>], [content |-> <<"A", "b">>]}

StoreEmbeddings == {<<1, 0>>, <<1, 1>>}

\* The operations that change a Memory with a store.
NextMemoryStore ==
    \/ \E item \in StoreItems, important \in BOOLEAN, o \in Outcomes, e \in StoreEmbeddings :
          MemoryAdd(item, important, o, e)
    \/ MemoryClearShortTerm

SpecMemoryStore == InitMemoryStore /\ [][NextMemoryStore]_vars

\* ------------------------------------------------- external services
\* The callers of the generation service and of the similarity store.

\* The texts the generation service answers with.
Texts == ActionResponses \cup {"thought"}

\* llm_interface.py:33-59: generate(prompt); the service answers with text
\* or the call fails.  The except clause catches every Exception, so the
\* call always returns.
Generate(outcome, text) ==
    /\ last' = [op |-> "generate", out |-> "returned",
                failed |-> (outcome = "fail"), ret |-> generate(outcome, text)]
    /\ UNCHANGED <<tasks, wk, memVars, treeVars, regVars>>

\* vector_db.py:117-151: VectorDB.add(item); the embedding service answers
\* with a vector or the call fails.  failed: the embedding call was made
\* and failed.
VectorDBAdd(item, outcome, embedding) ==
    /\ vector_db # NoValue
    /\ Len(table) < MaxRows
    /\ LET r == VectorDB_add(vector_db, table, item, outcome, embedding)
       IN  /\ table' = r.rows
           /\ last' = [op |-> "VectorDB.add", out |-> "returned",
                       failed |-> (r.embedded /\ outcome = "fail"), ret |-> r.ret]
    /\ UNCHANGED <<tasks, wk, short_term_memory, max_short_term_items, vector_db,
                   added, mt, treeVars, regVars>>

\* VectorDB(config): with "host" in the config a connection is made
\* (vector_db.py:40-47), without it connection stays None.
InitStore ==
    \E db \in {"unconnected", "connected"} : Constructed(db, DefaultMaxShortTermItems)

\* With a store, Memory.search does not look at the buffer or at the text
\* of the query, only at the vector the embedding service gives for it.
NextStore ==
    \/ \E o \in Outcomes, x \in Texts : Generate(o, x)
    \/ \E item \in Items, o \in Outcomes, e \in Embeddings : VectorDBAdd(item, o, e)
    \/ \E n \in 0..MaxRows, o \in Outcomes, e \in Embeddings :
          MemorySearch(<<"A">>, n, o, e)

SpecStore == InitStore /\ [][NextStore]_vars

\* vector_db.py:153-188: VectorDB.search(query, n); the embedding service
\* answers with a vector for the query or the call fails.
VectorDBSearch(n, outcome, embedding) ==
    /\ vector_db # NoValue
    /\ \E ret \in VectorDB_search(vector_db, table, get_embedding(outcome, embedding), n) :
          last' = [op |-> "VectorDB.search", out |-> "returned", n |-> n,
                   rows |-> table,
                   query_embedding |-> get_embedding(outcome, embedding),
                   ret |-> ret]
    /\ UNCHANGED <<tasks, wk, memVars, treeVars, regVars>>

\* The answers of the embedding service: a vector, or a failure, where no
\* vector is given.
EmbeddingAnswers == {<<"ok", e>> : e \in Embeddings} \cup {<<"fail", ZeroVector>>}

\* The contents of the stored records do not decide a search; one content
\* is stored.
NextQuery ==
    \/ \E answer \in EmbeddingAnswers :
          VectorDBAdd([content |-> <<"A", "b">>], answer[1], answer[2])
    \/ \E n \in 0..(MaxRows + 1), answer \in EmbeddingAnswers :
          VectorDBSearch(n, answer[1], answer[2])

SpecQuery == InitStore /\ [][NextQuery]_vars

\* ------------------------------------------- concurrent memory callers
\* Several threads call add and get_recent on one Memory; the class holds
\* no lock, so a thread can run between the append and the pop of another
\* thread's add.

\* memory.py:41: thread w enters add(item, is_important) and appends
AddAppends(w, item, is_important) ==
    /\ mt[w].pc = "idle"
    /\ Len(added) < MaxAdds
    /\ short_term_memory' = Append(short_term_memory, item)
    /\ added' = Append(added, item)
    /\ mt' = [mt EXCEPT ![w] = [pc |-> "appended", item |-> item,
                                is_important |-> is_important]]
    /\ UNCHANGED <<tasks, last, wk, max_short_term_items, vector_db, table, treeVars, regVars>>

\* memory.py:44-49: thread w compares the length with the capacity, pops
\* index 0 when it is larger, persists an important item and returns
AddEvicts(w, outcome, embedding) ==
    LET persist == mt[w].is_important /\ vector_db # NoValue
    IN  /\ mt[w].pc = "appended"
        /\ short_term_memory' =
              IF Len(short_term_memory) > max_short_term_items
              THEN Tail(short_term_memory) ELSE short_term_memory
        /\ table' = IF persist
                    THEN VectorDB_add(vector_db, table, mt[w].item, outcome, embedding).rows
                    ELSE table
        /\ mt' = [mt EXCEPT ![w] = NotAdding]
        /\ UNCHANGED <<tasks, last, wk, max_short_term_items, vector_db, added, treeVars, regVars>>

\* memory.py:61: a thread calls get_recent(n); the slice is taken in one
\* step.
ThreadReads(n) ==
    /\ last' = [op |-> "get_recent", out |-> "returned", n |-> n,
                ret |-> get_recent(short_term_memory, n)]
    /\ UNCHANGED <<tasks, wk, memVars, treeVars, regVars>>

InitMemoryThreads ==
    \E capacity \in 1..2 : Constructed(NoValue, capacity)

\* Without a store is_important and the embedding service play no part.
NextMemoryThreads ==
    \/ \E w \in Workers, item \in Items : AddAppends(w, item, FALSE)
    \/ \E w \in Workers : AddEvicts(w, "ok", ZeroVector)
    \/ \E n \in Counts : ThreadReads(n)

SpecMemoryThreads == InitMemoryThreads /\ [][NextMemoryThreads]_vars

\* ------------------------------------------------------- thought tree
\* One caller builds ThoughtAtom objects and attaches them.

\* The name of the next ThoughtAtom constructed.
NewName == ToString(Cardinality(DOMAIN atoms))

\* The number of add_child calls made so far, in children entries.
Attachments(as) == SumChildren(as, DOMAIN as)

\* thought_atom.py:37-46: parent.add_child(child) on the atoms
add_child(as, parent, child) ==
    LET appended == [as EXCEPT ![parent].children = Append(@, child)]
    IN  [appended EXCEPT ![child].parent = parent,
                         ![child].level = appended[parent].level + 1]

\* thought_atom.py:21-35: ThoughtAtom(content, level, None, metadata)
\* constructed by the caller, attached nowhere
NewAtom(content, level, metadata) ==
    /\ Cardinality(DOMAIN atoms) <= MaxAtoms
    /\ atoms' = [a \in DOMAIN atoms \cup {NewName} |->
                    IF a = NewName THEN ThoughtAtom(content, level, metadata)
                    ELSE atoms[a]]
    /\ UNCHANGED <<tasks, last, wk, memVars, root, regVars>>

\* thought_atom.py:37-46: parent.add_child(child) for any two atoms
AddChild(parent, child) ==
    /\ parent \in DOMAIN atoms
    /\ child \in DOMAIN atoms
    /\ Attachments(atoms) < MaxAtoms
    /\ atoms' = add_child(atoms, parent, child)
    /\ UNCHANGED <<tasks, last, wk, memVars, root, regVars>>

\* thought_atom.py:188-203: add_thought(content, parent, metadata); parent
\* is any atom, the root when None is passed
add_thought(content, parent, metadata) ==
    /\ parent \in DOMAIN atoms
    /\ Cardinality(DOMAIN atoms) <= MaxAtoms
    /\ Attachments(atoms) < MaxAtoms
    /\ LET thought == [ThoughtAtom(content, atoms[parent].level + 1, metadata)
                          EXCEPT !.parent = parent]
           made == [a \in DOMAIN atoms \cup {NewName} |->
                      IF a = NewName THEN thought ELSE atoms[a]]
       IN  atoms' = add_child(made, parent, NewName)
    /\ UNCHANGED <<tasks, last, wk, memVars, root, regVars>>

\* The shape of the atoms does not depend on content and metadata: one
\* content and the empty metadata stand for all.
NextTree ==
    \/ \E level \in 0..1 : NewAtom(RootContent, level, <<>>)
    \/ \E parent \in AtomNames, child \in AtomNames : AddChild(parent, child)
    \/ \E parent \in AtomNames : add_thought(RootContent, parent, <<>>)

SpecTree == Init /\ [][NextTree]_vars

\* ------------------------------------------------- reading the tree
\* One caller builds a tree and summarizes parts of it.

\* The atoms reached from the atoms in S by following children.
RECURSIVE Reached(_, _, _)
Reached(as, S, n) ==
    IF n = 0 THEN S
    ELSE Reached(as, S \cup UNION {{as[b].children[k] : k \in 1..Len(as[b].children)} : b \in S},
                 n - 1)

\* The atoms of the part of the structure that hangs from atom a.
Part(as, a) == Reached(as, {a}, Cardinality(DOMAIN as))

\* Following children from atom a comes back to an atom already passed:
\* the recursion of a traversal started at a does not end, and Python
\* raises RecursionError.
Loops(as, a) ==
    \E b \in Part(as, a) :
        b \in Reached(as, {as[b].children[k] : k \in 1..Len(as[b].children)},
                      Cardinality(DOMAIN as))

\* The atoms that summarize on atom a asks the generation service about.
Asked(as, a) == {b \in Part(as, a) : as[b].children # <<>>}

\* thought_atom.py:48-74: a.summarize(llm_interface)
Summarize(a, answers) ==
    /\ a \in DOMAIN atoms
    /\ last' = IF Loops(atoms, a)
               THEN [op |-> "summarize", out |-> "raised", node |-> a, tree |-> atoms]
               ELSE LET r == summarize(atoms, a, answers)
                    IN  [op |-> "summarize", out |-> "returned", node |-> a,
                         tree |-> atoms, ret |-> r.text, calls |-> r.calls]
    /\ UNCHANGED <<tasks, wk, memVars, treeVars, regVars>>

NextSummarize ==
    \/ \E content \in TreeContents, parent \in AtomNames :
          add_thought(content, parent, <<>>)
    \/ \E parent \in AtomNames, child \in AtomNames : AddChild(parent, child)
    \/ \E a \in DOMAIN atoms : \E failing \in SUBSET Asked(atoms, a) :
          Summarize(a, [b \in DOMAIN atoms |-> IF b \in failing THEN "fail" ELSE "ok"])

SpecSummarize == Init /\ [][NextSummarize]_vars

\* Metadata given to atoms: none, or one entry.
Metadatas == {<<>>, [type |-> "chapter"]}

\* thought_atom.py:76-88: a.to_dict()
RECURSIVE to_dict(_, _)
to_dict(as, a) ==
    [content |-> as[a].content,
     level |-> as[a].level,
     metadata |-> as[a].metadata,
     children |-> [k \in 1..Len(as[a].children) |-> to_dict(as, as[a].children[k])]]

\* thought_atom.py:90-111: ThoughtAtom.from_dict(data).  The atoms it
\* creates are new objects, named here ToString(next), ToString(next + 1),
\* ... in the order of their creation; top is the atom returned.
RECURSIVE from_dict(_, _)
RECURSIVE from_children(_, _, _, _)
from_dict(data, next) ==
    LET top == ToString(next)
        atom == [b \in {top} |-> ThoughtAtom(data.content, data.level, data.metadata)]
    IN  from_children(atom, top, data.children, next + 1)

\* thought_atom.py:107-109: the loop over the children's dictionaries
from_children(as, top, children, next) ==
    IF children = <<>> THEN [atoms |-> as, top |-> top, next |-> next]
    ELSE LET child == from_dict(Head(children), next)
         IN  from_children(add_child(as @@ child.atoms, top, child.top), top,
                           Tail(children), child.next)

\* thought_atom.py:227-250: ThoughtTree.from_dict(tree.to_dict(), config)
RoundTrip ==
    /\ last' = IF Loops(atoms, root)
               THEN [op |-> "from_dict", out |-> "raised", node |-> root, tree |-> atoms]
               ELSE LET data == to_dict(atoms, root)
                        r == from_dict(data, 1)
                    IN  [op |-> "from_dict", out |-> "returned", node |-> root,
                         tree |-> atoms, data |-> data, atoms |-> r.atoms, root |-> r.top]
    /\ UNCHANGED <<tasks, wk, memVars, treeVars, regVars>>

NextRoundTrip ==
    \/ \E level \in 0..1 : NewAtom("x", level, [type |-> "chapter"])
    \/ \E parent \in AtomNames, child \in AtomNames : AddChild(parent, child)
    \/ \E parent \in AtomNames : add_thought("y", parent, <<>>)
    \/ RoundTrip

SpecRoundTrip == Init /\ [][NextRoundTrip]_vars

\* dict.get(key): the entry for key, None when there is none
dict_get(d, key) == IF key \in DOMAIN d THEN d[key] ELSE NoValue

\* The results of find_by_metadata on a list of atoms, in order.
RECURSIVE find_by_metadata(_, _, _, _)
RECURSIVE find_in(_, _, _, _)
find_in(as, children, key, value) ==
    IF children = <<>> THEN <<>>
    ELSE find_by_metadata(as, Head(children), key, value)
             \o find_in(as, Tail(children), key, value)

\* thought_atom.py:113-132: a.find_by_metadata(key, value)
find_by_metadata(as, a, key, value) ==
    (IF dict_get(as[a].metadata, key) = value THEN <<a>> ELSE <<>>)
        \o find_in(as, as[a].children, key, value)

\* The keys and values asked for; NoValue is None.
Keys == {"type"}
Values == {"chapter", NoValue}

\* thought_atom.py:215-226: tree.find_by_metadata(key, value)
FindByMetadata(key, value) ==
    /\ last' = IF Loops(atoms, root)
               THEN [op |-> "find_by_metadata", out |-> "raised", node |-> root,
                     tree |-> atoms, key |-> key, value |-> value]
               ELSE [op |-> "find_by_metadata", out |-> "returned", node |-> root,
                     tree |-> atoms, key |-> key, value |-> value,
                     ret |-> find_by_metadata(atoms, root, key, value)]
    /\ UNCHANGED <<tasks, wk, memVars, treeVars, regVars>>

NextFind ==
    \/ \E parent \in AtomNames, metadata \in Metadatas :
          add_thought("y", parent, metadata)
    \/ \E parent \in AtomNames, child \in AtomNames : AddChild(parent, child)
    \/ \E key \in Keys, value \in Values : FindByMetadata(key, value)

SpecFind == Init /\ [][NextFind]_vars

\* ------------------------------------------------------ decomposition
\* One caller submits tasks and asks for the decomposition of a stored one.

\* task_manager.py:38-82: decompose_task(tasks[i])
DecomposeTask(i, outcome, text) ==
    /\ i \in 1..Len(tasks)
    /\ LET r == decompose_task(tasks[i].id, outcome, text)
       IN  last' = [op |-> "decompose_task", task |-> i, out |-> r.out,
                    response |-> generate(outcome, text), calls |-> r.calls,
                    ret |-> r.ret]
    /\ UNCHANGED <<tasks, wk, memVars, treeVars, regVars>>

NextDecompose ==
    \/ \E id \in Ids : add_task(id, {})
    \/ \E i \in 1..MaxTasks, o \in Outcomes, x \in DecompositionResponses :
          DecomposeTask(i, o, x)

SpecDecompose == Init /\ [][NextDecompose]_vars

\* ------------------------------------------------------------ lookups
\* One caller submits tasks, runs stored and unstored tasks and looks
\* tasks up by id.

\* task_manager.py:135-148: get_task_by_id(id); ret is 0 for None
GetTaskById(id) ==
    /\ last' = [op |-> "get_task_by_id", out |-> "returned", id |-> id,
                ret |-> get_task_by_id(tasks, id)]
    /\ UNCHANGED <<tasks, wk, memVars, treeVars, regVars>>

NextLookup ==
    \/ \E id \in Ids : add_task(id, {})
    \/ \E i \in 0..MaxTasks, r \in Runs : assign_task(i, r)
    \/ \E id \in Ids : GetTaskById(id)

SpecLookup == Init /\ [][NextLookup]_vars

\* ----------------------------------------------------------- registry
\* One caller registers agents, asks for them and calls remove_agent, as
\* tests/test_system_stability.py:37-59 does.

\* agent_coordinator.py:30-37: register_agent(agent)
RegisterAgent(agent) ==
    /\ Len(registry_log) < MaxCalls
    /\ agents' = register_agent(agents, agent)
    /\ registry_log' = Append(registry_log, [op |-> "register", name |-> agent.name,
                                             agent |-> agent])
    /\ last' = [op |-> "register_agent", out |-> "returned"]
    /\ UNCHANGED <<tasks, wk, memVars, treeVars>>

\* coordinator.remove_agent(name): the class defines no such attribute, so
\* the attribute lookup raises AttributeError and nothing is changed.
RemoveAgent(name) ==
    /\ Len(registry_log) < MaxCalls
    /\ agents' = agents
    /\ registry_log' = Append(registry_log, [op |-> "remove", name |-> name,
                                             agent |-> get_agent(agents, name)])
    /\ last' = [op |-> "remove_agent",
                out |-> IF "remove_agent" \in AgentCoordinatorMethods
                        THEN "returned" ELSE "raised"]
    /\ UNCHANGED <<tasks, wk, memVars, treeVars>>

\* agent_coordinator.py:39-49: get_agent(name)
GetAgent(name) ==
    /\ last' = [op |-> "get_agent", out |-> "returned", name |-> name,
                ret |-> get_agent(agents, name)]
    /\ UNCHANGED <<tasks, wk, memVars, treeVars, regVars>>

\* agent_coordinator.py:51-58: list_agents()
ListAgents ==
    /\ last' = [op |-> "list_agents", out |-> "returned", ret |-> list_agents(agents)]
    /\ UNCHANGED <<tasks, wk, memVars, treeVars, regVars>>

NextRegistry ==
    \/ \E agent \in BaseAgents : RegisterAgent(agent)
    \/ \E name \in RegistryNames : RemoveAgent(name)
    \/ \E name \in RegistryNames : GetAgent(name)
    \/ ListAgents

SpecRegistry == Init /\ [][NextRegistry]_vars

\* -------------------------------------------------------- agent runs
\* One caller runs a BaseAgent several times.  The agent's memory is
\* Memory() (base_agent.py:43): no store, the default capacity.

\* The context given to run.
Context == "ctx"

\* base_agent.py:154-179: run(context) with agent.tools = registered, the
\* answers of the generation service to think and to act, and toolResult
\* what the chosen tool returns.  think (47-79) searches the memory for
\* its prompt only and records the thought; act (81-136) records the
\* action unless indexing the parsed answer raised TypeError;
\* execute_action (191-207) raises for a tool that is not registered;
\* observe (138-152) records str(result) and returns it.
BaseAgentRun(registered, thinkOutcome, actOutcome, actText, toolResult) ==
    LET capacity == max_short_term_items
        m1 == add(short_term_memory, capacity, [type |-> "context", content |-> Context])
        thought == generate(thinkOutcome, "thought")
        m2 == add(m1, capacity, [type |-> "thought", content |-> thought])
        action == act(actOutcome, actText)
        m3 == add(m2, capacity, [type |-> "action", content |-> action.tool])
        done == execute_action(action, registered, toolResult)
        m4 == add(m3, capacity, [type |-> "observation", content |-> done.result])
        call == [op |-> "run", before |-> short_term_memory, registered |-> registered,
                 response |-> generate(actOutcome, actText)]
    IN  /\ Len(added) < MaxAdds
        /\ vector_db = NoValue
        /\ IF action.kind = "raise"
           THEN /\ short_term_memory' = m2
                /\ last' = call @@ [out |-> "raised", ret |-> NoValue]
           ELSE IF done.ends = "raise"
           THEN /\ short_term_memory' = m3
                /\ last' = call @@ [out |-> "raised", ret |-> NoValue]
           ELSE /\ short_term_memory' = m4
                /\ last' = call @@ [out |-> "returned", ret |-> done.result]
        /\ added' = added \o SubSeq(short_term_memory', Len(short_term_memory) + 1,
                                      Len(short_term_memory'))
        /\ UNCHANGED <<tasks, wk, max_short_term_items, vector_db, table, mt,
                       treeVars, regVars>>

NextRun ==
    \/ \E reg \in SUBSET ToolNames, t \in Outcomes, a \in Outcomes,
          x \in ActionResponses, r \in Results : BaseAgentRun(reg, t, a, x, r)
    \/ MemoryClearShortTerm

SpecRun == Init /\ [][NextRun]_vars

\* ------------------------------------------------- scheduler notions
\* The notions the scheduler claims are stated in.  The task manager keeps
\* none of them; they are read off TaskManager.tasks.

Range(q) == {q[k] : k \in 1..Len(q)}

\* A dependency id is Completed when a stored task of that id is completed.
IdCompleted(ts, id) ==
    \E j \in Positions(ts) : ts[j].id = id /\ ts[j].status = "completed"

DepsCompleted(ts, i) == \A d \in ts[i].dependencies : IdCompleted(ts, d)

\* Runnable: not completed, every dependency Completed.
Runnable(ts) ==
    {i \in Positions(ts) : ts[i].status # "completed" /\ DepsCompleted(ts, i)}

\* The ids the stored tasks of this id list as dependencies.
DirectDeps(ts, id) ==
    UNION {ts[j].dependencies : j \in {k \in Positions(ts) : ts[k].id = id}}

RECURSIVE Closure(_, _, _)
Closure(ts, S, n) ==
    IF n = 0 THEN S
    ELSE Closure(ts, S \cup UNION {DirectDeps(ts, d) : d \in S}, n - 1)

\* Every id that id depends on, directly or through other stored tasks.
AllDeps(ts, id) == Closure(ts, DirectDeps(ts, id), Cardinality(Ids))

OnCycle(ts, i) == ts[i].id \in AllDeps(ts, ts[i].id)

Min(S) == CHOOSE x \in S : \A y \in S : x <= y

\* The stored tasks form a DAG of distinctly named tasks.
IsDag(ts) ==
    /\ \A i, j \in Positions(ts) : ts[i].id = ts[j].id => i = j
    /\ \A i \in Positions(ts) : ~OnCycle(ts, i)

\* ------------------------------------------------------------- claims

\* C1: over a DAG of tasks, the operation that hands out work never returns
\* a task with a dependency that is not Completed, and a task it has
\* returned is not returned by a second call made before the task has
\* completed.
C1_HandsOutOnlyReadyTasksOnce ==
    (last.op = "get_pending_tasks" /\ IsDag(tasks)) =>
        /\ \A i \in Range(last.ret) : DepsCompleted(tasks, i)
        /\ Range(last.ret) \cap Range(get_pending_tasks(tasks)) = {}

\* C2: no two executions of the same stored task are active at the same
\* time, in any interleaving of the callers of assign_task.
C2_AtMostOneActiveExecution ==
    \A v, w \in Workers :
        (v # w /\ wk[v].pc = "run" /\ wk[w].pc = "run" /\ wk[v].task # 0)
            => wk[v].task # wk[w].task

\* C3: after a task of a DAG has been completed, the tasks handed out are
\* exactly the not-completed tasks whose whole dependency set is Completed;
\* a task with two dependencies of which one is not Completed is not among
\* them.
C3_CompletionUnblocksExactlyReady ==
    (last.op = "assign_task" /\ last.out = "returned" /\ last.task # 0 /\ IsDag(tasks))
        => Range(get_pending_tasks(tasks)) = Runnable(tasks)

\* C4: when some task of a DAG is runnable, the next task handed out (the
\* first of the returned list) is the earliest-submitted runnable task.
C4_EarliestRunnableFirst ==
    (last.op = "get_pending_tasks" /\ IsDag(tasks) /\ Runnable(tasks) # {})
        => /\ last.ret # <<>>
           /\ Head(last.ret) = Min(Runnable(tasks))

\* C5: a submission that closes a dependency cycle (a self-dependency
\* included) fails with CyclicDependencyError and stores nothing: no
\* add_task call that returned normally left its task on a cycle.
C5_CyclicSubmissionRejected ==
    (last.op = "add_task" /\ last.out = "returned") => ~OnCycle(tasks, last.task)

\* C6: submitting an id that is already present fails with
\* DuplicateTaskError, so no two stored tasks share an id.
C6_IdsUnique ==
    \A i, j \in Positions(tasks) : tasks[i].id = tasks[j].id => i = j

\* C7: completing a task that is absent fails (UnknownTaskError) and
\* completing a stored task that is not Running, still pending or already
\* completed, fails (InvalidStateError): the call does not return normally,
\* and no stored task changes.
C7_CompleteRejectsAbsentAndNotRunning ==
    [][last'.op = "assign_task" =>
        /\ last'.task = 0 => (last'.out # "returned" /\ tasks' = tasks)
        /\ (last'.task # 0 /\ tasks[last'.task].status # "running")
              => (last'.out # "returned" /\ tasks' = tasks)]_vars

\* C8: Completed and Failed are terminal: no step changes the status or
\* the stored result of a task that is Completed or Failed.
C8_TerminalStatesKeepStatusAndResult ==
    [][\A i \in Positions(tasks) :
          tasks[i].status \in {"completed", "failed"}
              => (tasks'[i].status = tasks[i].status /\ tasks'[i].result = tasks[i].result)]_vars

\* C9: once the worker invocation of a task of a DAG has failed, no task
\* that depends on it, directly or transitively, is handed out; and when
\* every other unfinished task depends on it, nothing is handed out while
\* monitor_progress reports pending > 0.
C9_DependentsOfFailedNeverHandedOut ==
    (last.op = "assign_task" /\ last.out = "raised" /\ last.task # 0 /\ IsDag(tasks)) =>
        LET f == tasks[last.task].id
            pending == Range(get_pending_tasks(tasks))
            others == {j \in Positions(tasks) \ {last.task} : tasks[j].status # "completed"}
        IN  /\ \A j \in pending : f \notin AllDeps(tasks, tasks[j].id)
            /\ (others # {} /\ \A j \in others : f \in AllDeps(tasks, tasks[j].id))
                  => (pending = {} /\ monitor_progress(tasks).pending > 0)

\* C10: a worker invocation during which the generation service call failed
\* leaves its task with status Failed, never Completed.
C10_ErrorEndsInFailed ==
    (last.op = "assign_task" /\ last.genFailed /\ last.task # 0)
        => tasks[last.task].status = "failed"

\* C11: a failed call of the generation service or of the embedding service
\* reaches the caller as an error: generate does not return text in place
\* of the failed call, and VectorDB.add does not persist a record for which
\* the embedding call failed (a substituted zero vector).
C11_ServiceFailureReachesCaller ==
    /\ (last.op = "generate" /\ last.failed) => last.out = "raised"
    /\ (last.op = "VectorDB.add" /\ last.failed)
          => (last.out = "raised" /\ ~last.ret)

\* C12: a worker invocation that does not return is aborted when the
\* per-task timeout expires and its task moved to Failed: no caller stays
\* inside agent.run, with its task handed out and not finished, forever.
C12_InFlightInvocationEnds ==
    \A w \in Workers : (wk[w].pc = "run") ~> (wk[w].pc = "idle")

C14_BufferHoldsMostRecent ==
    Len(added) > max_short_term_items =>
        short_term_memory =
            SubSeq(added, Len(added) - max_short_term_items + 1, Len(added))

\* C14 witness: capacity 3 and five items added, the last one as important.
C14_Witness ==
    /\ max_short_term_items = 3
    /\ Len(added) = 5
    /\ last.op = "add"
    /\ last.is_important

\* C15: for every n >= 0, get_recent(n) returns exactly min(n, buffer size)
\* items, the last ones added, in insertion order; get_recent(0) returns
\* the empty list.
C15_RecentReturnsLastN ==
    last.op = "get_recent" =>
        LET len == Len(short_term_memory)
            k == Min({last.n, len})
        IN  last.ret = SubSeq(short_term_memory, len - k + 1, len)

\* C16: without a store, search(query, n) returns the first n items of the
\* buffer that contain the query, in buffer order: at most n items (none
\* for n = 0), each of them matching, no earlier matching item skipped.
C16_SearchReturnsFirstNMatches ==
    (last.op = "search" /\ vector_db = NoValue) =>
        LET hits == SelectSeq(short_term_memory, LAMBDA item : matches(last.query, item))
        IN  /\ Len(last.ret) <= last.n
            /\ last.ret = SubSeq(hits, 1, Min({last.n, Len(hits)}))

\* C17: an item added with is_important = True to a Memory that has a
\* store is persisted in the store as well, and no later step (an add that
\* evicts the item from the buffer, a clear) removes or changes a row of
\* the store.
C17_ImportantItemsArePersisted ==
    [][/\ (last'.op = "add" /\ last'.is_important /\ vector_db' # NoValue)
            => \E k \in 1..Len(table') : table'[k].content = last'.item.content
       /\ \A k \in 1..Len(table) : k <= Len(table') /\ table'[k] = table[k]]_vars

\* C18: clear_short_term leaves the buffer empty, so that a following
\* get_recent or scan for any number of items returns none, and leaves
\* every row of the store as it was.
C18_ClearEmptiesBufferOnly ==
    [][last'.op = "clear_short_term" =>
          /\ short_term_memory' = <<>>
          /\ \A n \in Counts : get_recent(short_term_memory', n) = <<>>
          /\ \A q \in Queries, n \in Counts : scan(short_term_memory', q, n, <<>>) = <<>>
          /\ table' = table]_vars

\* C18 witness: the buffer has been cleared while the store holds a row.
C18_Witness ==
    /\ last.op = "clear_short_term"
    /\ short_term_memory = <<>>
    /\ Len(table) >= 1

\* C19: a reader that runs concurrently with add never observes a
\* partially-evicted buffer: what get_recent returns never has more items
\* than the capacity, that is, never holds the new item together with the
\* item the add evicts (for a get_recent(n) that asks for one item or more).
C19_ReadersSeeNoPartialEviction ==
    (last.op = "get_recent" /\ last.n >= 1)
        => Len(last.ret) <= max_short_term_items

\* The atoms reached from atom a by following children.
RECURSIVE Below(_, _, _)
Below(as, S, n) ==
    IF n = 0 THEN S
    ELSE Below(as, S \cup UNION {Range(as[a].children) : a \in S}, n - 1)

InTree == Below(atoms, {root}, Cardinality(DOMAIN atoms))

\* Every atom has been attached at most once, and the root never.
AttachedOnce ==
    /\ \A a \in DOMAIN atoms :
          Cardinality({pk \in (DOMAIN atoms) \X (1..MaxAtoms) :
                          /\ pk[2] <= Len(atoms[pk[1]].children)
                          /\ atoms[pk[1]].children[pk[2]] = a}) <= 1
    /\ \A p \in DOMAIN atoms : root \notin Range(atoms[p].children)

\* C20: after any add_thought and add_child calls that attach every atom
\* at most once (an atom that already has children included), the root of
\* the tree has level 0 and every other atom of the tree has the level of
\* its parent plus one.
C20_LevelIsParentLevelPlusOne ==
    AttachedOnce =>
        /\ atoms[root].level = 0
        /\ \A a \in InTree \ {root} :
              atoms[a].level = atoms[atoms[a].parent].level + 1

\* The places (parent, index) at which atom a is listed as a child.
Places(a) ==
    {pk \in (DOMAIN atoms) \X (1..MaxAtoms) :
        /\ pk[2] <= Len(atoms[pk[1]].children)
        /\ atoms[pk[1]].children[pk[2]] = a}

\* The atoms below atom a: its children, their children, and so on.
Descendants(a) ==
    Below(atoms, Range(atoms[a].children), Cardinality(DOMAIN atoms))

\* C21: the atoms stay a tree under every sequence of attach operations:
\* each atom is listed as a child at most once, by one atom, its parent
\* reference is that atom, and no atom is its own ancestor.
C21_TreeStaysTree ==
    \A a \in DOMAIN atoms :
        /\ Cardinality(Places(a)) <= 1
        /\ \A pk \in Places(a) : atoms[a].parent = pk[1]
        /\ a \notin Descendants(a)

\* The calls of generate that the last summarize made for atom b.
CallsFor(b) == {i \in 1..Len(last.calls) : last.calls[i].node = b}

\* The summaries of atom c that are computed before call i of the last
\* summarize: the content of a leaf, what an earlier call for c returned
\* otherwise.
SummariesBefore(c, i) ==
    IF last.tree[c].children = <<>> THEN {last.tree[c].content}
    ELSE {last.calls[j].ret : j \in {j \in CallsFor(c) : j < i}}

\* The part that hangs from atom a is a subtree: following children from a
\* never comes back to an atom already passed and reaches no atom along two
\* ways.
IsSubtree(as, a) ==
    /\ ~Loops(as, a)
    /\ \A b \in Part(as, a) :
          Cardinality({pk \in Part(as, a) \X (1..(MaxAtoms + 1)) :
                          /\ pk[2] <= Len(as[pk[1]].children)
                          /\ as[pk[1]].children[pk[2]] = b}) <= 1

SummarizedSubtree == IsSubtree(last.tree, last.node)

\* C22: on a subtree, summarize(node) returns, having called the generation service
\* exactly once for each atom of the part below node that has children and
\* never for a leaf; a leaf returns its own content with no call; the call
\* for an internal atom comes after the summaries of its children are
\* computed and its prompt holds them in attachment order, joined with the
\* separator.
C22_SummarizeCallsOncePerInternalNode ==
    (last.op = "summarize" /\ SummarizedSubtree) =>
        /\ last.out = "returned"
        /\ \A b \in Part(last.tree, last.node) :
              Cardinality(CallsFor(b)) = IF last.tree[b].children = <<>> THEN 0 ELSE 1
        /\ \A i \in 1..Len(last.calls) : last.calls[i].node \in Part(last.tree, last.node)
        /\ last.tree[last.node].children = <<>> =>
              last.ret = last.tree[last.node].content
        /\ last.tree[last.node].children # <<>> =>
              last.ret = last.calls[Len(last.calls)].ret
        /\ \A i \in 1..Len(last.calls) :
              LET children == last.tree[last.calls[i].node].children
              IN  \E texts \in [1..Len(children) -> {RootContent, SummaryText, ErrorText} \cup TreeContents] :
                    /\ \A k \in 1..Len(children) : texts[k] \in SummariesBefore(children[k], i)
                    /\ last.calls[i].prompt = Prompt(join(Separator, texts))

\* A node with a leaf and an internal child was summarized with two calls.
C22_Witness ==
    /\ last.op = "summarize"
    /\ SummarizedSubtree
    /\ last.out = "returned"
    /\ Len(last.tree[last.node].children) = 2
    /\ Len(last.calls) = 2
    /\ last.calls[1].ret = ErrorText

\* No dictionary of the serialized form has an entry for the parent.
RECURSIVE NoParentReference(_)
NoParentReference(data) ==
    /\ DOMAIN data = {"content", "level", "metadata", "children"}
    /\ \A k \in 1..Len(data.children) : NoParentReference(data.children[k])

\* C23: for every tree, from_dict(to_dict(tree)) has the same content,
\* level, metadata and child order at every node as the tree, every
\* non-root node's parent is the node that lists it as a child, and the
\* serialized form has no parent reference.
C23_RoundTripIsIsomorphic ==
    (last.op = "from_dict" /\ IsSubtree(last.tree, last.node)) =>
        /\ last.out = "returned"
        /\ NoParentReference(last.data)
        /\ to_dict(last.atoms, last.root) = to_dict(last.tree, last.node)
        /\ last.atoms[last.root].parent = NoValue
        /\ \A b \in DOMAIN last.atoms :
              \A k \in 1..Len(last.atoms[b].children) :
                  last.atoms[last.atoms[b].children[k]].parent = b

\* C24: on a tree, findByMetadata(key, value) returns exactly the nodes
\* whose metadata has an entry for key equal to value, never a node with no
\* entry for key, each once, a parent before its children and the nodes
\* under an earlier child before the nodes under a later child.
C24_FindReturnsMatchesInPreOrder ==
    (last.op = "find_by_metadata" /\ IsSubtree(last.tree, last.node)) =>
        /\ last.out = "returned"
        /\ Range(last.ret) =
              {b \in Part(last.tree, last.node) :
                  /\ last.key \in DOMAIN last.tree[b].metadata
                  /\ last.tree[b].metadata[last.key] = last.value}
        /\ Len(last.ret) = Cardinality(Range(last.ret))
        /\ \A i \in 1..Len(last.ret), j \in 1..Len(last.ret) :
              (i # j /\ last.ret[j] \in Part(last.tree, last.ret[i])) => i < j
        /\ \A b \in Part(last.tree, last.node) :
              \A k1 \in 1..Len(last.tree[b].children), k2 \in 1..Len(last.tree[b].children) :
                \A i \in 1..Len(last.ret), j \in 1..Len(last.ret) :
                  (/\ k1 < k2
                   /\ last.ret[i] \in Part(last.tree, last.tree[b].children[k1])
                   /\ last.ret[j] \in Part(last.tree, last.tree[b].children[k2])) => i < j

\* The ways to take the records of the last search from the stored rows:
\* record k is row p[k], no row twice.
Selections ==
    {p \in [1..Len(last.ret) -> 1..Len(last.rows)] :
        /\ \A i, j \in 1..Len(last.ret) : p[i] = p[j] => i = j
        /\ \A k \in 1..Len(last.ret) :
              /\ last.ret[k].content = last.rows[p[k]].content
              /\ last.ret[k].distance =
                    cosine_distance(last.rows[p[k]].embedding, last.query_embedding)}

\* C25: query(text, k) returns min(k, number of stored records) records,
\* no stored record that is left out is nearer to the query than one that
\* is returned, and the records come by ascending distance.
C25_QueryReturnsNearestAscending ==
    last.op = "VectorDB.search" =>
        /\ Len(last.ret) = Min({last.n, Len(last.rows)})
        /\ \A i, j \in 1..Len(last.ret) :
              i < j => ~sorts_before(last.ret[j].distance, last.ret[i].distance)
        /\ \E p \in Selections :
              \A r \in (1..Len(last.rows)) \ Range(p) :
                  \A k \in 1..Len(last.ret) :
                      ~sorts_before(cosine_distance(last.rows[r].embedding,
                                                    last.query_embedding),
                                    last.ret[k].distance)

\* With two stored records, the one stored last being the nearer, a query
\* for one record returned it.
C25_Witness ==
    /\ last.op = "VectorDB.search"
    /\ Len(last.rows) = 2
    /\ last.n = 1
    /\ Len(last.ret) = 1
    /\ sorts_before(last.ret[1].distance,
                    cosine_distance(last.rows[1].embedding, last.query_embedding))

\* C26: whatever the generation service answers, decompose_task calls it
\* once and returns; what it returns is the subtasks of the response or
\* exactly one default subtask, and every returned subtask has the
\* decomposed task's id as parent_id.
C26_DecomposeFallsBackOnce ==
    last.op = "decompose_task" =>
        /\ last.calls = 1
        /\ last.out = "returned"
        /\ \/ last.ret = <<DefaultSubtask(tasks[last.task].id)>>
           \/ /\ json_loads(last.response).ok
              /\ json_loads(last.response).value.kind = "list"
              /\ Len(last.ret) = Len(json_loads(last.response).value.value)
        /\ \A k \in 1..Len(last.ret) : last.ret[k].parent_id = tasks[last.task].id

\* The ids of the stored tasks.
Submitted == {tasks[k].id : k \in 1..Len(tasks)}

\* A task that was never submitted is completed: assign_task on a dict that
\* is not stored, with a worker that returns.
CompletesUnsubmitted == \E r \in Runs : r.ends = "return" /\ assign_task(0, r)

DistinctNames ==
    \A i, j \in 1..Len(registry_log) :
        (/\ registry_log[i].op = "register"
         /\ registry_log[j].op = "register"
         /\ registry_log[i].name = registry_log[j].name) => i = j

\* The calls that registered an agent, and the calls that removed a
\* registered one.
Registrations == {i \in 1..Len(registry_log) : registry_log[i].op = "register"}
Removals ==
    {j \in 1..Len(registry_log) :
        /\ registry_log[j].op = "remove"
        /\ \E i \in Registrations : i < j /\ registry_log[i].name = registry_log[j].name
        /\ \A i \in 1..(j - 1) :
              ~(registry_log[i].op = "remove" /\ registry_log[i].name = registry_log[j].name)}

\* The registrations that no later call removed.
Remaining ==
    {i \in Registrations :
        \A j \in Removals : ~(i < j /\ registry_log[i].name = registry_log[j].name)}

\* C28: after register and remove calls with distinct names, get_agent
\* gives the agent registered under a name that was not removed and None
\* for every other name, and as many agents are listed as were registered
\* minus those removed.
C28_RegistryHoldsRegisteredNotRemoved ==
    DistinctNames =>
        /\ \A i \in Remaining :
              get_agent(agents, registry_log[i].name) = registry_log[i].agent
        /\ \A name \in RegistryNames \ {registry_log[i].name : i \in Remaining} :
              get_agent(agents, name).name = NoValue
        /\ Len(list_agents(agents)) = Cardinality(Registrations) - Cardinality(Removals)
        /\ (last.op = "get_agent" /\ last.name \in {registry_log[i].name : i \in Remaining})
              => last.ret.name = last.name

\* assign_task is called on stored task i and agent.run raises.
RunRaises(i) == \E r \in Runs : r.ends = "raise" /\ assign_task(i, r)

\* C29: when agent.run raises inside assign_task, the status and result of
\* the task are what they were before the call, a task that was pending is
\* still among the pending tasks, and monitor_progress counts as many
\* completed tasks as before.
C29_RaisingRunChangesNoTask ==
    [][(/\ last'.op = "assign_task"
        /\ last'.task >= 1
        /\ RunRaises(last'.task)) =>
            LET i == last'.task
            IN  /\ tasks'[i].status = tasks[i].status
                /\ tasks'[i].result = tasks[i].result
                /\ (i \in Range(get_pending_tasks(tasks))
                      => i \in Range(get_pending_tasks(tasks')))
                /\ monitor_progress(tasks').completed
                      = monitor_progress(tasks).completed]_vars

\* agent.run raised inside assign_task on a stored task that is pending,
\* next to a completed one.
C29_Witness ==
    /\ last.op = "assign_task"
    /\ last.out = "raised"
    /\ last.task >= 1
    /\ tasks[last.task].status = NoValue
    /\ monitor_progress(tasks).completed = 1

\* What the last run added to the agent's memory.
Recorded ==
    SubSeq(short_term_memory, Len(last.before) + 1, Len(short_term_memory))

\* C30: every run records a context item, a thought item and an action
\* item, in this order; when the action's tool is registered an
\* observation item follows and its content is returned, otherwise run
\* raises with no observation recorded; an action response that cannot be
\* parsed gives the action default_tool.
C30_RunRecordsContextThoughtAction ==
    last.op = "run" =>
        /\ Len(Recorded) >= 3
        /\ Recorded[1].type = "context"
        /\ Recorded[2].type = "thought"
        /\ Recorded[3].type = "action"
        /\ IF Recorded[3].content \in last.registered
           THEN /\ Len(Recorded) = 4
                /\ Recorded[4].type = "observation"
                /\ last.out = "returned"
                /\ last.ret = Recorded[4].content
           ELSE /\ Len(Recorded) = 3
                /\ last.out = "raised"
        /\ last.response \in {"text", ErrorText} => Recorded[3].content = "default_tool"

====
